---- MODULE Spec2Model ----
(***************************************************************************)
(* Best-route trade selection of src/hooks/v3/useBestV3Trade.ts.           *)
(*                                                                         *)
(* The two hooks useBestV3TradeExactIn and useBestV3TradeExactOut are      *)
(* memoised functions of the caller's fixed-leg amount, the counter-asset, *)
(* the enumerated routes, the routesLoading flag and the batch of quote    *)
(* results.  React recomputes a useMemo in the same render in which one of *)
(* its dependencies changed, so every action below changes one input and   *)
(* recomputes the result of both hooks.                                    *)
(***************************************************************************)
EXTENDS Integers, Sequences, FiniteSets

\* Bounds of the model.
MaxRoutes == 2      \* at most this many enumerated routes
MaxQuote == 1       \* quoted amounts range over 0..MaxQuote
MaxCycle == 2       \* at most this many request cycles after the first render

\* JavaScript's null and undefined, encoded beside the non-negative integers
\* that stand for amounts, currencies and routes.
Null == -1
Undefined == -2

\* A decoded result object that has no amountOut / amountIn field.
MissingField == -3

\* The marker of an exception thrown inside the hook: the render fails and
\* the hook returns nothing.
Thrown == -4

\* !x for a value that is an object (Route, BigNumber, CurrencyAmount,
\* Currency) or null or undefined: every object is truthy, a BigNumber of
\* zero included.
Falsy(x) == x \in {Null, Undefined}

\* enum V3TradeState
LOADING == "LOADING"
INVALID == "INVALID"
NO_ROUTE_FOUND == "NO_ROUTE_FOUND"
VALID == "VALID"
SYNCING == "SYNCING"
V3TradeState == {LOADING, INVALID, NO_ROUTE_FOUND, VALID, SYNCING}

\* enum TradeType
EXACT_INPUT == "EXACT_INPUT"
EXACT_OUTPUT == "EXACT_OUTPUT"

\* ---------------------------------------------------------------- inputs

\* The fixed-leg amount the caller passes (amountIn of the exact-input hook,
\* amountOut of the exact-output hook): its quotient, or undefined.
AmountValues == {1}
Amounts == {Undefined} \cup AmountValues

\* The counter-asset the caller passes (currencyOut / currencyIn).
CurrencyValues == {1}
Currencies == {Undefined} \cup CurrencyValues

\* Route objects, by identity.
RouteIds == 1..MaxRoutes

\* The route sequences useAllV3Routes returns: the first n routes of one of
\* two enumeration orders (ascending or descending identity), so that the
\* position of a route and its identity are different things.
Ascending(n) == [i \in 1..n |-> i]
Descending(n) == [i \in 1..n |-> MaxRoutes + 1 - i]
RouteSeqs == {Ascending(n) : n \in 0..MaxRoutes} \cup {Descending(n) : n \in 0..MaxRoutes}

\* What a quote call can return: the amount the quoter computed
\* (result.amountOut of quoteExactInput, result.amountIn of quoteExactOutput),
\* or no result.
QuoteValues == 0..MaxQuote
Results == {Undefined} \cup QuoteValues

\* result.amountOut / result.amountIn of a present result: undefined when the
\* object has no such field.
AmountOf(result) == IF result = MissingField THEN Undefined ELSE result

\* One entry of the batch useSingleContractMultipleData returns.
CallState == [valid : BOOLEAN, loading : BOOLEAN, syncing : BOOLEAN, result : Results]

\* The entry of a request that was just issued: a request without an amount
\* is marked invalid and is not sent, any other is in flight.
FreshCall(amountSpecified) ==
    [valid |-> amountSpecified # Undefined,
     loading |-> amountSpecified # Undefined,
     syncing |-> FALSE,
     result |-> Undefined]

\* The batch just after the request inputs changed: one entry per route.
FreshBatch(amountSpecified, rs) == [i \in 1..Len(rs) |-> FreshCall(amountSpecified)]

\* ---------------------------------------------------------------- requests

\* The chains the wallet can be on (ChainId of the SDK), or none.
MATIC == 137
ZKEVM == 1101
ChainIds == {Undefined, MATIC, ZKEVM}

\* QUOTE_GAS_OVERRIDES[ChainId.ZKEVM] and DEFAULT_GAS_QUOTE
ZKEVM_GAS_QUOTE == 100000000
DEFAULT_GAS_QUOTE == 2000000

\* QUOTE_GAS_OVERRIDES[chainId]: undefined for a chain without an entry.
QUOTE_GAS_OVERRIDES(ch) == IF ch = ZKEVM THEN ZKEVM_GAS_QUOTE ELSE Undefined

\* gasRequired: chainId ? QUOTE_GAS_OVERRIDES[chainId] ?? DEFAULT_GAS_QUOTE : undefined
GasRequired(ch) ==
    IF ch = Undefined \/ ch = 0 THEN Undefined
    ELSE IF QUOTE_GAS_OVERRIDES(ch) # Undefined THEN QUOTE_GAS_OVERRIDES(ch)
    ELSE DEFAULT_GAS_QUOTE

\* encodeRouteToPath(route, exactOutput): the call, by its arguments.
EncodeRouteToPath(route, exactOutput) == [route |-> route, exactOutput |-> exactOutput]

\* quotient.toString(16): the hexadecimal digits of a non-negative integer.
RECURSIVE ToHex(_)
ToHex(n) == IF n < 16 THEN <<n>> ELSE Append(ToHex(n \div 16), n % 16)

\* The amount argument of a request without an amount: undefined, written as
\* the empty digit sequence (a hexadecimal string has at least one digit).
UndefinedArg == <<>>

\* amount ? `0x${amount.quotient.toString(16)}` : undefined
AmountArg(amountSpecified) ==
    IF Falsy(amountSpecified) THEN UndefinedArg ELSE ToHex(amountSpecified)

\* A request builder that drops the requests it has no amount for.
QuoteExactInInputs_DropWithoutAmount(amountIn, rs) ==
    IF Falsy(amountIn) THEN <<>>
    ELSE [i \in 1..Len(rs) |->
             [path |-> EncodeRouteToPath(rs[i], FALSE), amount |-> AmountArg(amountIn)]]

\* quoteExactInInputs: routes.map((route) => [path, amount])
QuoteExactInInputs(amountIn, rs) ==
    [i \in 1..Len(rs) |->
        [path |-> EncodeRouteToPath(rs[i], FALSE), amount |-> AmountArg(amountIn)]]

\* quoteExactOutInputs: routes.map((route) => [path, amount])
QuoteExactOutInputs(amountOut, rs) ==
    [i \in 1..Len(rs) |->
        [path |-> EncodeRouteToPath(rs[i], TRUE), amount |-> AmountArg(amountOut)]]

\* ---------------------------------------------------------------- helpers

\* An indexing that is one position late.
RouteAt_Previous(rs, i) == IF i - 1 \in 1..Len(rs) THEN rs[i - 1] ELSE Undefined

\* routes[i] of a JavaScript array (0-based i is position i + 1 here).
RouteAt(rs, i) == IF i \in 1..Len(rs) THEN rs[i] ELSE Undefined

\* quotesResults.some(({ loading }) => loading)
SomeLoading(qs) == \E i \in 1..Len(qs) : qs[i].loading

\* quotesResults.some(({ syncing }) => syncing)
SomeSyncing(qs) == \E i \in 1..Len(qs) : qs[i].syncing

\* quotesResults.some(({ valid }) => !valid)
SomeInvalid(qs) == \E i \in 1..Len(qs) : ~qs[i].valid

\* BigNumber.toString(): the decimal digits of a non-negative integer.
RECURSIVE BigNumberToString(_)
BigNumberToString(n) == IF n < 10 THEN <<n>> ELSE Append(BigNumberToString(n \div 10), n % 10)

\* JSBI.BigInt(string): the integer a sequence of decimal digits denotes.
RECURSIVE ParseInt(_)
ParseInt(s) ==
    IF Len(s) = 0 THEN 0
    ELSE 10 * ParseInt(SubSeq(s, 1, Len(s) - 1)) + s[Len(s)]

\* CurrencyAmount.fromRawAmount(currency, rawAmount)
FromRawAmount(cur, rawAmount) == [currency |-> cur, quotient |-> ParseInt(rawAmount)]

\* A trade factory that tags every trade as an exact-output one.
CreateUncheckedTrade_AlwaysExactOutput(route, tradeType, inputAmount, outputAmount) ==
    [route |-> route, tradeType |-> EXACT_OUTPUT,
     inputAmount |-> inputAmount, outputAmount |-> outputAmount]

\* Trade.createUncheckedTrade({ route, tradeType, inputAmount, outputAmount })
CreateUncheckedTrade(route, tradeType, inputAmount, outputAmount) ==
    [route |-> route, tradeType |-> tradeType,
     inputAmount |-> inputAmount, outputAmount |-> outputAmount]

\* trade: null
NullTrade == [isNull |-> TRUE]

\* A hook that hands out a trade only once every quote is at the latest block.
TradeResult_NoTradeWhileSyncing(state, trade) ==
    [state |-> state, trade |-> IF state = "SYNCING" THEN NullTrade ELSE trade]

\* The object literal { state, trade } a hook returns.
TradeResult(state, trade) == [state |-> state, trade |-> trade]

\* a.lt(b) / a.gt(b) of ethers' BigNumber throws when a is undefined (a
\* TypeError: no method on undefined) or when b is undefined (BigNumber.from
\* rejects it).
CompareThrows(a, b) == a = Undefined \/ b = Undefined

\* What a hook whose memo threw hands to its caller: no state at all.
ThrownResult == [state |-> "Error", trade |-> NullTrade]

\* ---------------------------------------------------------------- exact input

\* The reducer with gt in the place of lt: it keeps the smallest amountOut.
ExactInReducer_Gt(currentBest, q, i, rs) ==
    IF q.result = Undefined THEN currentBest
    ELSE IF currentBest.amountOut = Null
         THEN [bestRoute |-> RouteAt(rs, i), amountOut |-> q.result]
    ELSE IF currentBest.amountOut > q.result
         THEN [bestRoute |-> RouteAt(rs, i), amountOut |-> q.result]
    ELSE currentBest

\* The reducer with lte in the place of lt: on a tie the later route wins.
ExactInReducer_Lte(currentBest, q, i, rs) ==
    IF q.result = Undefined THEN currentBest
    ELSE IF currentBest.amountOut = Null
         THEN [bestRoute |-> RouteAt(rs, i), amountOut |-> q.result]
    ELSE IF currentBest.amountOut <= q.result
         THEN [bestRoute |-> RouteAt(rs, i), amountOut |-> q.result]
    ELSE currentBest

\* The reducer of useBestV3TradeExactIn: one step of the left-to-right fold.
\* An exception thrown by a comparison ends the fold: every later step hands
\* the marker on.
ExactInReducer(currentBest, q, i, rs) ==
    IF currentBest.amountOut = Thrown THEN currentBest
    ELSE IF q.result = Undefined THEN currentBest
    ELSE IF currentBest.amountOut = Null
         THEN [bestRoute |-> RouteAt(rs, i), amountOut |-> AmountOf(q.result)]
    ELSE IF CompareThrows(currentBest.amountOut, AmountOf(q.result))
         THEN [bestRoute |-> Null, amountOut |-> Thrown]
    ELSE IF currentBest.amountOut < AmountOf(q.result)
         THEN [bestRoute |-> RouteAt(rs, i), amountOut |-> AmountOf(q.result)]
    ELSE currentBest

\* quotesResults.reduce(reducer, { bestRoute: null, amountOut: null }) over
\* the first n entries.
RECURSIVE ReduceExactIn(_, _, _)
ReduceExactIn(qs, rs, n) ==
    IF n = 0 THEN [bestRoute |-> Null, amountOut |-> Null]
    ELSE ExactInReducer(ReduceExactIn(qs, rs, n - 1), qs[n], n, rs)

\* The first check with the counter-asset forgotten.
InputsMissingExactIn_AmountOnly(amountIn, currencyOut) == Falsy(amountIn)

\* !amountIn || !currencyOut
InputsMissingExactIn(amountIn, currencyOut) == Falsy(amountIn) \/ Falsy(currencyOut)

\* The value of the trade useMemo of useBestV3TradeExactIn.
UseBestV3TradeExactIn(amountIn, currencyOut, rs, rsLoading, qs) ==
    IF InputsMissingExactIn(amountIn, currencyOut)
    THEN TradeResult(INVALID, NullTrade)
    ELSE IF rsLoading \/ SomeLoading(qs)
    THEN TradeResult(LOADING, NullTrade)
    ELSE LET best == ReduceExactIn(qs, rs, Len(qs)) IN
         IF best.amountOut = Thrown THEN ThrownResult
         ELSE IF Falsy(best.bestRoute) \/ Falsy(best.amountOut)
         THEN TradeResult(NO_ROUTE_FOUND, NullTrade)
         ELSE TradeResult(IF SomeSyncing(qs) THEN SYNCING ELSE VALID,
                  CreateUncheckedTrade(best.bestRoute, EXACT_INPUT, amountIn,
                      FromRawAmount(currencyOut, BigNumberToString(best.amountOut))))

\* ---------------------------------------------------------------- exact output

\* The reducer with lt in the place of gt: it keeps the largest amountIn.
ExactOutReducer_Lt(currentBest, q, i, rs) ==
    IF q.result = Undefined THEN currentBest
    ELSE IF currentBest.amountIn = Null
         THEN [bestRoute |-> RouteAt(rs, i), amountIn |-> q.result]
    ELSE IF currentBest.amountIn < q.result
         THEN [bestRoute |-> RouteAt(rs, i), amountIn |-> q.result]
    ELSE currentBest

\* The reducer of useBestV3TradeExactOut.
ExactOutReducer(currentBest, q, i, rs) ==
    IF currentBest.amountIn = Thrown THEN currentBest
    ELSE IF q.result = Undefined THEN currentBest
    ELSE IF currentBest.amountIn = Null
         THEN [bestRoute |-> RouteAt(rs, i), amountIn |-> AmountOf(q.result)]
    ELSE IF CompareThrows(currentBest.amountIn, AmountOf(q.result))
         THEN [bestRoute |-> Null, amountIn |-> Thrown]
    ELSE IF currentBest.amountIn > AmountOf(q.result)
         THEN [bestRoute |-> RouteAt(rs, i), amountIn |-> AmountOf(q.result)]
    ELSE currentBest

RECURSIVE ReduceExactOut(_, _, _)
ReduceExactOut(qs, rs, n) ==
    IF n = 0 THEN [bestRoute |-> Null, amountIn |-> Null]
    ELSE ExactOutReducer(ReduceExactOut(qs, rs, n - 1), qs[n], n, rs)

\* The value of the trade useMemo of useBestV3TradeExactOut.
UseBestV3TradeExactOut(currencyIn, amountOut, rs, rsLoading, qs) ==
    IF Falsy(amountOut) \/ Falsy(currencyIn) \/ SomeInvalid(qs)
    THEN TradeResult(INVALID, NullTrade)
    ELSE IF rsLoading \/ SomeLoading(qs)
    THEN TradeResult(LOADING, NullTrade)
    ELSE LET best == ReduceExactOut(qs, rs, Len(qs)) IN
         IF best.amountIn = Thrown THEN ThrownResult
         ELSE IF Falsy(best.bestRoute) \/ Falsy(best.amountIn)
         THEN TradeResult(NO_ROUTE_FOUND, NullTrade)
         ELSE TradeResult(IF SomeSyncing(qs) THEN SYNCING ELSE VALID,
                  CreateUncheckedTrade(best.bestRoute, EXACT_OUTPUT,
                      FromRawAmount(currencyIn, BigNumberToString(best.amountIn)),
                      amountOut))

\* ---------------------------------------------------------------- state

VARIABLES
    amount,          \* the caller's fixed-leg amount (amountIn / amountOut)
    currency,        \* the caller's counter-asset (currencyOut / currencyIn)
    routes,          \* routes of useAllV3Routes
    routesLoading,   \* loading of useAllV3Routes
    quotesResults,   \* the batch of useSingleContractMultipleData
    exactIn,         \* what useBestV3TradeExactIn returns this cycle
    exactOut,        \* what useBestV3TradeExactOut returns this cycle
    quoteExactInInputs,   \* the request batch of useBestV3TradeExactIn
    quoteExactOutInputs,  \* the request batch of useBestV3TradeExactOut
    chainId,         \* chainId of useActiveWeb3React
    gasRequired,     \* the gasRequired option both hooks pass with their batch
    cycle,           \* the marker of the current request cycle
    inFlight,        \* the requests sent to the quoter and not yet answered
    origin,          \* for each entry of the batch, the request that filled it
    lateDiscarded,   \* whether an answer to a superseded cycle has arrived
    currencyAID,     \* SelectRange: address of currencyA, or undefined
    currencyBID,     \* SelectRange: address of currencyB, or undefined
    selectRangeChainId,  \* SelectRange: chainId of useActiveWeb3React
    minRangeLength,  \* SelectRange: the minRangeLength state
    lookups          \* SelectRange: the farm lookups started and not completed

\* The chain of the trade hooks and the option computed from it.
chainVars == <<chainId, gasRequired>>

\* The bookkeeping of request cycles.
cycleVars == <<cycle, inFlight, origin, lateDiscarded>>

\* The state of the SelectRange container.
rangeVars == <<currencyAID, currencyBID, selectRangeChainId, minRangeLength, lookups>>

\* The variables of the trade hooks.
hookVars == <<amount, currency, routes, routesLoading, quotesResults, exactIn, exactOut,
              quoteExactInInputs, quoteExactOutInputs>>

\* What the actions of the trade hooks on a fixed chain leave alone.
outsideVars == <<chainVars, cycleVars, rangeVars>>

vars == <<hookVars, chainVars, cycleVars, rangeVars>>

\* A render whose hooks keep what they returned last while the routes load.
Render_KeepsLastWhileRoutesLoad(a, c, rs, rl, qs) ==
    /\ IF a = amount /\ rs = routes
       THEN UNCHANGED <<quoteExactInInputs, quoteExactOutInputs>>
       ELSE /\ quoteExactInInputs' = QuoteExactInInputs(a, rs)
            /\ quoteExactOutInputs' = QuoteExactOutInputs(a, rs)
    /\ exactIn' = IF rl THEN exactIn ELSE UseBestV3TradeExactIn(a, c, rs, rl, qs)
    /\ exactOut' = IF rl THEN exactOut ELSE UseBestV3TradeExactOut(c, a, rs, rl, qs)

\* One render: both hooks rebuild their request batch when the amount or the
\* routes changed (the dependencies of its useMemo) and recompute their memo
\* from the cycle's inputs.
Render(a, c, rs, rl, qs) ==
    /\ IF a = amount /\ rs = routes
       THEN UNCHANGED <<quoteExactInInputs, quoteExactOutInputs>>
       ELSE /\ quoteExactInInputs' = QuoteExactInInputs(a, rs)
            /\ quoteExactOutInputs' = QuoteExactOutInputs(a, rs)
    /\ exactIn' = UseBestV3TradeExactIn(a, c, rs, rl, qs)
    /\ exactOut' = UseBestV3TradeExactOut(c, a, rs, rl, qs)

Init ==
    /\ amount = Undefined
    /\ currency = Undefined
    /\ routes = <<>>
    /\ routesLoading = FALSE
    /\ quotesResults = <<>>
    /\ exactIn = UseBestV3TradeExactIn(Undefined, Undefined, <<>>, FALSE, <<>>)
    /\ exactOut = UseBestV3TradeExactOut(Undefined, Undefined, <<>>, FALSE, <<>>)
    /\ quoteExactInInputs = QuoteExactInInputs(Undefined, <<>>)
    /\ quoteExactOutInputs = QuoteExactOutInputs(Undefined, <<>>)
    /\ chainId = MATIC
    /\ gasRequired = GasRequired(MATIC)
    /\ cycle = 0
    /\ inFlight = {}
    /\ origin = <<>>
    /\ lateDiscarded = FALSE
    /\ currencyAID = Undefined
    /\ currencyBID = Undefined
    /\ selectRangeChainId = MATIC
    /\ minRangeLength = Undefined
    /\ lookups = {}

\* The caller passes another amount: the request inputs are rebuilt for the
\* same routes and a new batch replaces the old one.
SetAmount ==
    \E a \in Amounts :
        /\ a # amount
        /\ amount' = a
        /\ quotesResults' = FreshBatch(a, routes)
        /\ UNCHANGED <<currency, routes, routesLoading>>
        /\ UNCHANGED outsideVars
        /\ Render(a, currency, routes, routesLoading, quotesResults')

\* The caller passes another counter-asset: routes are enumerated from
\* scratch (none yet; the pool registry is being fetched unless the asset is
\* absent) and the batch is rebuilt for them.
SetCurrency ==
    \E c \in Currencies :
        /\ c # currency
        /\ currency' = c
        /\ routes' = <<>>
        /\ routesLoading' = (c # Undefined)
        /\ quotesResults' = FreshBatch(amount, routes')
        /\ UNCHANGED amount
        /\ UNCHANGED outsideVars
        /\ Render(amount, c, routes', routesLoading', quotesResults')

\* useAllV3Routes returns another route sequence (the pool registry moved
\* on): the request inputs are rebuilt and a new batch replaces the old one.
RoutesUpdate ==
    \E rs \in RouteSeqs :
        /\ rs # routes
        /\ routes' = rs
        /\ quotesResults' = FreshBatch(amount, rs)
        /\ UNCHANGED <<amount, currency, routesLoading>>
        /\ UNCHANGED outsideVars
        /\ Render(amount, currency, rs, routesLoading, quotesResults')

\* useAllV3Routes starts or stops loading; the routes and with them the
\* request inputs and the batch stay what they are.
RoutesLoadingUpdate ==
    /\ routesLoading' = ~routesLoading
    /\ UNCHANGED <<amount, currency, routes, quotesResults>>
    /\ UNCHANGED outsideVars
    /\ Render(amount, currency, routes, routesLoading', quotesResults)

\* The batch with entry i replaced.
Replace(qs, i, q) == [qs EXCEPT ![i] = q]

\* Request i starts or stops being in flight.
QuoteLoading ==
    \E i \in 1..Len(quotesResults) :
        /\ quotesResults' = Replace(quotesResults, i,
               [quotesResults[i] EXCEPT !.loading = ~quotesResults[i].loading])
        /\ UNCHANGED <<amount, currency, routes, routesLoading>>
        /\ UNCHANGED outsideVars
        /\ Render(amount, currency, routes, routesLoading, quotesResults')

\* The result of request i falls behind the latest block, or catches up.
QuoteSyncing ==
    \E i \in 1..Len(quotesResults) :
        /\ quotesResults' = Replace(quotesResults, i,
               [quotesResults[i] EXCEPT !.syncing = ~quotesResults[i].syncing])
        /\ UNCHANGED <<amount, currency, routes, routesLoading>>
        /\ UNCHANGED outsideVars
        /\ Render(amount, currency, routes, routesLoading, quotesResults')

\* Request i becomes well-formed, or stops being so.
QuoteValid ==
    \E i \in 1..Len(quotesResults) :
        /\ quotesResults' = Replace(quotesResults, i,
               [quotesResults[i] EXCEPT !.valid = ~quotesResults[i].valid])
        /\ UNCHANGED <<amount, currency, routes, routesLoading>>
        /\ UNCHANGED outsideVars
        /\ Render(amount, currency, routes, routesLoading, quotesResults')

\* Request i resolves to a quoted amount, or to no result (the quoter
\* reverted, the response did not decode).
QuoteResult ==
    \E i \in 1..Len(quotesResults), r \in Results :
        /\ r # quotesResults[i].result
        /\ quotesResults' = Replace(quotesResults, i,
               [quotesResults[i] EXCEPT !.result = r])
        /\ UNCHANGED <<amount, currency, routes, routesLoading>>
        /\ UNCHANGED outsideVars
        /\ Render(amount, currency, routes, routesLoading, quotesResults')

Next ==
    \/ SetAmount
    \/ SetCurrency
    \/ RoutesUpdate
    \/ RoutesLoadingUpdate
    \/ QuoteLoading
    \/ QuoteSyncing
    \/ QuoteValid
    \/ QuoteResult

Spec == Init /\ [][Next]_vars

\* ---------------------------------------------------------------- any chain

\* The wallet switches chain, or disconnects: both hooks pass the gas option
\* of the new chain, and routes are enumerated from scratch for it.
SetChainId ==
    \E ch \in ChainIds :
        /\ ch # chainId
        /\ chainId' = ch
        /\ gasRequired' = GasRequired(ch)
        /\ routes' = <<>>
        /\ routesLoading' = (ch # Undefined /\ currency # Undefined)
        /\ quotesResults' = FreshBatch(amount, routes')
        /\ UNCHANGED <<amount, currency>>
        /\ UNCHANGED <<cycleVars, rangeVars>>
        /\ Render(amount, currency, routes', routesLoading', quotesResults')

NextChain ==
    \/ Next
    \/ SetChainId

\* The hooks on a wallet that changes chain.
SpecChain == Init /\ [][NextChain]_vars

\* ---------------------------------------------------------------- cycles

\* The entry of origin for a batch entry no answer has filled.
NoOrigin == [cycle |-> Null, route |-> Null]

\* The requests of a cycle: one per route, each carrying the cycle's marker,
\* its position in the batch and the route its path encodes; none is sent
\* without an amount.
Requests(n, amountSpecified, rs) ==
    IF amountSpecified = Undefined THEN {}
    ELSE {[cycle |-> n, index |-> i, route |-> rs[i]] : i \in 1..Len(rs)}

\* The amount, the counter-asset or the routes change while requests may be
\* in flight: a new cycle starts with a fresh batch for the new routes, and
\* the requests of earlier cycles stay in flight.
NewCycle ==
    /\ cycle < MaxCycle
    /\ \E a \in Amounts, c \in Currencies, rs \in RouteSeqs :
           /\ <<a, c, rs>> # <<amount, currency, routes>>
           /\ c = Undefined => rs = <<>>
           /\ amount' = a
           /\ currency' = c
           /\ routes' = rs
           /\ routesLoading' = FALSE
           /\ cycle' = cycle + 1
           /\ quotesResults' = FreshBatch(a, rs)
           /\ origin' = [i \in 1..Len(rs) |-> NoOrigin]
           /\ inFlight' = inFlight \cup Requests(cycle', a, rs)
           /\ UNCHANGED <<lateDiscarded, chainVars, rangeVars>>
           /\ Render(a, c, rs, FALSE, quotesResults')

\* The quoter answers a request, in any order: the answer to a request of
\* the current cycle fills the entry at the request's position, the answer
\* to a request of a superseded cycle is discarded.
Respond ==
    \E msg \in inFlight, v \in Results :
        /\ inFlight' = inFlight \ {msg}
        /\ IF msg.cycle = cycle
           THEN /\ quotesResults' = Replace(quotesResults, msg.index,
                       [quotesResults[msg.index] EXCEPT !.loading = FALSE, !.result = v])
                /\ origin' = [origin EXCEPT ![msg.index] =
                       [cycle |-> msg.cycle, route |-> msg.route]]
                /\ UNCHANGED lateDiscarded
           ELSE /\ lateDiscarded' = TRUE
                /\ UNCHANGED <<quotesResults, origin>>
        /\ UNCHANGED <<amount, currency, routes, routesLoading, cycle>>
        /\ UNCHANGED <<chainVars, rangeVars>>
        /\ Render(amount, currency, routes, routesLoading, quotesResults')

NextCycles ==
    \/ NewCycle
    \/ Respond

\* The hooks across request cycles whose answers arrive in any order.
SpecCycles == Init /\ [][NextCycles]_vars

\* ---------------------------------------------------------------- SelectRange

\* The token addresses the two currencies can have.
TokenIds == {1, 2}

\* eternalFarm.minRangeLength of the one farm there is, in hundredths.
FarmMinRangeLength == 500

\* getEternalFarmFromTokens(currencyAID, currencyBID, chainId): the farm of
\* the pair on the chain, by its minRangeLength, or none. There is a farm
\* for the pair of the two tokens on MATIC and none elsewhere.
GetEternalFarmFromTokens(a, b, ch) ==
    IF a # b /\ ch = MATIC THEN FarmMinRangeLength ELSE Undefined

\* eternalFarm ? Number(eternalFarm.minRangeLength) / 100 : undefined
MinRangeLengthOf(eternalFarm) ==
    IF eternalFarm = Undefined THEN Undefined ELSE eternalFarm \div 100

\* The effect that runs when currencyAID, currencyBID or chainId changed:
\* it resets minRangeLength and, when the three are there, starts a lookup.
RangeEffect(a, b, ch) ==
    /\ minRangeLength' = Undefined
    /\ lookups' = IF a = Undefined \/ b = Undefined \/ ch = Undefined
                  THEN lookups
                  ELSE lookups \cup {[a |-> a, b |-> b, chainId |-> ch]}

SelectCurrencyA ==
    \E a \in {Undefined} \cup TokenIds :
        /\ a # currencyAID
        /\ currencyAID' = a
        /\ UNCHANGED <<currencyBID, selectRangeChainId>>
        /\ RangeEffect(a, currencyBID, selectRangeChainId)
        /\ UNCHANGED <<hookVars, chainVars, cycleVars>>

SelectCurrencyB ==
    \E b \in {Undefined} \cup TokenIds :
        /\ b # currencyBID
        /\ currencyBID' = b
        /\ UNCHANGED <<currencyAID, selectRangeChainId>>
        /\ RangeEffect(currencyAID, b, selectRangeChainId)
        /\ UNCHANGED <<hookVars, chainVars, cycleVars>>

SelectRangeChain ==
    \E ch \in ChainIds :
        /\ ch # selectRangeChainId
        /\ selectRangeChainId' = ch
        /\ UNCHANGED <<currencyAID, currencyBID>>
        /\ RangeEffect(currencyAID, currencyBID, ch)
        /\ UNCHANGED <<hookVars, chainVars, cycleVars>>

\* A lookup completes, in any order, and sets minRangeLength.
LookupCompletes ==
    \E l \in lookups :
        /\ lookups' = lookups \ {l}
        /\ minRangeLength' = MinRangeLengthOf(GetEternalFarmFromTokens(l.a, l.b, l.chainId))
        /\ UNCHANGED <<currencyAID, currencyBID, selectRangeChainId>>
        /\ UNCHANGED <<hookVars, chainVars, cycleVars>>

NextRange ==
    \/ SelectCurrencyA
    \/ SelectCurrencyB
    \/ SelectRangeChain
    \/ LookupCompletes

\* The minimum-range effect of the SelectRange container.
SpecRange == Init /\ [][NextRange]_vars

\* ---------------------------------------------------------------- any batch

\* Request i resolves to a result object without the amount field.
QuoteResultWithoutAmount ==
    \E i \in 1..Len(quotesResults) :
        /\ quotesResults[i].result # MissingField
        /\ quotesResults' = Replace(quotesResults, i,
               [quotesResults[i] EXCEPT !.result = MissingField])
        /\ UNCHANGED <<amount, currency, routes, routesLoading>>
        /\ UNCHANGED outsideVars
        /\ Render(amount, currency, routes, routesLoading, quotesResults')

\* The batch gets one entry more than it had, whatever the routes are.
BatchGrows ==
    /\ Len(quotesResults) < MaxRoutes
    /\ quotesResults' = Append(quotesResults, FreshCall(amount))
    /\ UNCHANGED <<amount, currency, routes, routesLoading>>
    /\ UNCHANGED outsideVars
    /\ Render(amount, currency, routes, routesLoading, quotesResults')

\* The batch loses its last entry, whatever the routes are.
BatchShrinks ==
    /\ Len(quotesResults) > 0
    /\ quotesResults' = SubSeq(quotesResults, 1, Len(quotesResults) - 1)
    /\ UNCHANGED <<amount, currency, routes, routesLoading>>
    /\ UNCHANGED outsideVars
    /\ Render(amount, currency, routes, routesLoading, quotesResults')

NextWide ==
    \/ Next
    \/ QuoteResultWithoutAmount
    \/ BatchGrows
    \/ BatchShrinks

\* The hooks on every batch: results without their amount field and batches
\* longer or shorter than the route sequence included.
SpecWide == Init /\ [][NextWide]_vars

\* ---------------------------------------------------------------- typing

TypeOK ==
    /\ amount \in Amounts
    /\ currency \in Currencies
    /\ routes \in RouteSeqs
    /\ routesLoading \in BOOLEAN
    /\ quotesResults \in [1..Len(routes) -> CallState]
    /\ exactIn.state \in V3TradeState
    /\ exactOut.state \in V3TradeState
    /\ chainId \in ChainIds

\* ---------------------------------------------------------------- properties

\* The caller passed both the fixed-leg amount and the counter-asset.
InputsPresent == amount # Undefined /\ currency # Undefined

\* Route enumeration is loading or some request is in flight.
AnyLoading == routesLoading \/ \E i \in 1..Len(quotesResults) : quotesResults[i].loading

\* The positions of the batch whose result is present.
Present == {i \in 1..Len(quotesResults) : quotesResults[i].result # Undefined}

\* The quoted amounts of the present results.
Quoted == {quotesResults[i].result : i \in Present}

\* The positions of the batch that quoted v.
Quoting(v) == {i \in Present : quotesResults[i].result = v}

\* The smallest position of a non-empty set of positions.
First(S) == CHOOSE i \in S : \A j \in S : i <= j

\* The largest and the smallest quoted amount of a batch with a present result.
MaxQuoted == CHOOSE v \in Quoted : \A w \in Quoted : w <= v
MinQuoted == CHOOSE v \in Quoted : \A w \in Quoted : v <= w

\* C1: for both hooks and in every cycle, the returned trade is non-null if
\* and only if the returned state is VALID or SYNCING.
C1_TradeIffValidOrSyncing ==
    /\ (exactIn.trade # NullTrade) <=> (exactIn.state \in {VALID, SYNCING})
    /\ (exactOut.trade # NullTrade) <=> (exactOut.state \in {VALID, SYNCING})

\* C1 witness: a cycle in which the exact-input hook returns a trade with
\* state SYNCING while the exact-output hook returns INVALID without one.
C1_Witness ==
    /\ exactIn.state = SYNCING /\ exactIn.trade # NullTrade
    /\ exactOut.state = INVALID /\ exactOut.trade = NullTrade
    /\ Present # {}

\* C2: exact input, inputs present, nothing loading, some result present: a
\* trade is returned and its output amount is at least the amountOut of every
\* present result of the batch.
C2_ExactInMaximal ==
    (InputsPresent /\ ~AnyLoading /\ Present # {}) =>
        /\ exactIn.trade # NullTrade
        /\ \A i \in Present : exactIn.trade.outputAmount.quotient >= quotesResults[i].result

\* C2 witness: two present results with different amounts, the larger one
\* second, and the trade carries the larger.
C2_Witness ==
    /\ InputsPresent /\ ~AnyLoading
    /\ Len(quotesResults) >= 2
    /\ quotesResults[1].result # Undefined
    /\ quotesResults[2].result # Undefined
    /\ quotesResults[1].result < quotesResults[2].result
    /\ exactIn.trade # NullTrade
    /\ exactIn.trade.outputAmount.quotient = quotesResults[2].result

C4_TieBreakEarliestRoute ==
    /\ (exactIn.trade # NullTrade /\ Cardinality(Quoting(MaxQuoted)) >= 2) =>
           exactIn.trade.route = routes[First(Quoting(MaxQuoted))]
    /\ (exactOut.trade # NullTrade /\ Cardinality(Quoting(MinQuoted)) >= 2) =>
           exactOut.trade.route = routes[First(Quoting(MinQuoted))]

\* C4 witness: both hooks return a trade, two routes tie for the winning
\* amount of each, and each trade carries the route enumerated first, which
\* is not the route with the smallest identity.
C4_Witness ==
    /\ exactIn.trade # NullTrade /\ exactOut.trade # NullTrade
    /\ Cardinality(Quoting(MaxQuoted)) >= 2
    /\ Cardinality(Quoting(MinQuoted)) >= 2
    /\ exactIn.trade.route = routes[1]
    /\ exactOut.trade.route = routes[1]
    /\ routes[1] > routes[2]

\* C5: for both hooks, with the inputs present, a request that is loading
\* makes the state LOADING and the trade null, whatever the other flags and
\* results of the batch are.
C5_LoadingWhenAnyRequestLoading ==
    (InputsPresent /\ \E i \in 1..Len(quotesResults) : quotesResults[i].loading) =>
        /\ exactIn = TradeResult(LOADING, NullTrade)
        /\ exactOut = TradeResult(LOADING, NullTrade)

\* C6: for both hooks, an absent fixed-leg amount or an absent counter-asset
\* makes the state INVALID and the trade null, whatever routesLoading and the
\* batch are.
C6_InvalidWhenInputAbsent ==
    (amount = Undefined \/ currency = Undefined) =>
        /\ exactIn = TradeResult(INVALID, NullTrade)
        /\ exactOut = TradeResult(INVALID, NullTrade)

\* C6 witness: the counter-asset is absent while routes are loading, a request
\* is in flight and another entry has a present, syncing result; both hooks
\* return INVALID.
C6_Witness ==
    /\ amount # Undefined /\ currency = Undefined
    /\ routesLoading
    /\ \E i \in 1..Len(quotesResults) : quotesResults[i].loading
    /\ \E i \in Present : quotesResults[i].syncing /\ quotesResults[i].valid
    /\ exactIn.state = INVALID /\ exactOut.state = INVALID

\* C7: for both hooks, with the inputs present and nothing loading, a batch
\* in which every result is absent (the empty batch included) makes the state
\* NO_ROUTE_FOUND and the trade null.
C7_NoRouteFoundWhenNoResult ==
    (InputsPresent /\ ~AnyLoading /\ Present = {}) =>
        /\ exactIn = TradeResult(NO_ROUTE_FOUND, NullTrade)
        /\ exactOut = TradeResult(NO_ROUTE_FOUND, NullTrade)

\* The batch with every syncing flag cleared.
NotSyncing(qs) == [i \in 1..Len(qs) |-> [qs[i] EXCEPT !.syncing = FALSE]]

\* C8: for both hooks, when a winning route exists (inputs present, nothing
\* loading, some result present), the state is SYNCING if some entry of the
\* batch is syncing and VALID otherwise, and the trade is non-null and is the
\* one the hook returns for the same batch with no entry syncing.
C8_SyncingOrValidWithSameTrade ==
    (InputsPresent /\ ~AnyLoading /\ Present # {}) =>
        /\ exactIn.state = (IF SomeSyncing(quotesResults) THEN SYNCING ELSE VALID)
        /\ exactIn.trade # NullTrade
        /\ exactIn.trade = UseBestV3TradeExactIn(amount, currency, routes,
                               routesLoading, NotSyncing(quotesResults)).trade
        /\ exactOut.state = (IF SomeSyncing(quotesResults) THEN SYNCING ELSE VALID)
        /\ exactOut.trade # NullTrade
        /\ exactOut.trade = UseBestV3TradeExactOut(currency, amount, routes,
                                routesLoading, NotSyncing(quotesResults)).trade

\* C9: in every cycle, NO_ROUTE_FOUND is returned only when neither route
\* enumeration nor a request is loading, and with the inputs present the state
\* is LOADING whenever something is loading.
C9_NoRouteFoundOnlyWhenSettled ==
    /\ (exactIn.state = NO_ROUTE_FOUND \/ exactOut.state = NO_ROUTE_FOUND) => ~AnyLoading
    /\ (InputsPresent /\ AnyLoading) =>
           (exactIn.state = LOADING /\ exactOut.state = LOADING)

\* C10: on the same inputs and the same batch the two hooks return the same
\* state.
C10_SameStateBothDirections == exactIn.state = exactOut.state

\* The positions of the batch whose request failed: it is settled and has no
\* result (the quoter reverted, or the response did not decode).
Failed == {i \in 1..Len(quotesResults) :
              ~quotesResults[i].loading /\ quotesResults[i].result = Undefined}

\* C11: for both hooks, with the inputs present and nothing loading, a batch
\* in which some requests failed and another has a result gives VALID or
\* SYNCING with a trade that carries the best of the present results and the
\* route of a request that did not fail.
C11_FailedRequestsDoNotFailTheCycle ==
    (InputsPresent /\ ~AnyLoading /\ Failed # {} /\ Present # {}) =>
        /\ exactIn.state \in {VALID, SYNCING}
        /\ exactIn.trade # NullTrade
        /\ exactIn.trade.outputAmount.quotient = MaxQuoted
        /\ exactIn.trade.route \in {routes[i] : i \in Present}
        /\ exactOut.state \in {VALID, SYNCING}
        /\ exactOut.trade # NullTrade
        /\ exactOut.trade.inputAmount.quotient = MinQuoted
        /\ exactOut.trade.route \in {routes[i] : i \in Present}

\* C12: the selector is total: whatever the batch is (a present result
\* without its amount field and a batch longer or shorter than the routes
\* included), each hook returns one of the five states and does not throw.
C12_SelectorTotal ==
    /\ exactIn.state \in V3TradeState
    /\ exactOut.state \in V3TradeState

\* C13: every batch either hook issues carries a gas ceiling: 100,000,000 on
\* ZKEVM and 2,000,000 on every other chain, also without a chain id.
C13_GasCeilingOnEveryBatch ==
    gasRequired = (IF chainId = ZKEVM THEN ZKEVM_GAS_QUOTE ELSE DEFAULT_GAS_QUOTE)

\* C14: the request batch of each hook has one request per route, request i
\* encoding route i with exactOutput false (exact input) or true (exact
\* output), also when the amount is missing: the request is then at its place
\* with an undefined amount.
C14_OneRequestPerRoute ==
    /\ Len(quoteExactInInputs) = Len(routes)
    /\ Len(quoteExactOutInputs) = Len(routes)
    /\ \A i \in 1..Len(routes) :
           /\ quoteExactInInputs[i].path = EncodeRouteToPath(routes[i], FALSE)
           /\ quoteExactOutInputs[i].path = EncodeRouteToPath(routes[i], TRUE)
           /\ (amount = Undefined) <=> (quoteExactInInputs[i].amount = UndefinedArg)
           /\ (amount = Undefined) <=> (quoteExactOutInputs[i].amount = UndefinedArg)

\* C14 witness: two routes are enumerated, in descending identity, while the
\* amount is missing, and each batch has its two requests.
C14_Witness ==
    /\ amount = Undefined
    /\ Len(routes) = 2 /\ routes[1] > routes[2]
    /\ Len(quoteExactInInputs) = 2 /\ Len(quoteExactOutInputs) = 2
    /\ quoteExactInInputs[2].path.route = routes[2]
    /\ quoteExactOutInputs[2].amount = UndefinedArg

\* C15: a returned trade is packaged from the winner. Its route is routes[i]
\* for the position i of the winning result; the exact-input trade has the
\* caller's amountIn as input amount, the winning amountOut in currencyOut as
\* output amount and the tag EXACT_INPUT; the exact-output trade has the
\* caller's amountOut as output amount, the winning amountIn in currencyIn as
\* input amount and the tag EXACT_OUTPUT.
C15_TradePackagedFromWinner ==
    /\ exactIn.trade # NullTrade =>
           /\ Present # {}
           /\ exactIn.trade.route = routes[First(Quoting(MaxQuoted))]
           /\ exactIn.trade.inputAmount = amount
           /\ exactIn.trade.outputAmount = [currency |-> currency, quotient |-> MaxQuoted]
           /\ exactIn.trade.tradeType = EXACT_INPUT
    /\ exactOut.trade # NullTrade =>
           /\ Present # {}
           /\ exactOut.trade.route = routes[First(Quoting(MinQuoted))]
           /\ exactOut.trade.outputAmount = amount
           /\ exactOut.trade.inputAmount = [currency |-> currency, quotient |-> MinQuoted]
           /\ exactOut.trade.tradeType = EXACT_OUTPUT

\* C15 witness: two routes quote different amounts, the second more than the
\* first, and both hooks return a trade: the exact-input one on the second
\* route, the exact-output one on the first.
C15_Witness ==
    /\ Len(routes) = 2 /\ routes[1] > routes[2]
    /\ Present = {1, 2}
    /\ quotesResults[1].result < quotesResults[2].result
    /\ exactIn.trade # NullTrade /\ exactOut.trade # NullTrade
    /\ exactIn.trade.route = routes[2]
    /\ exactIn.trade.outputAmount.quotient = quotesResults[2].result
    /\ exactOut.trade.route = routes[1]
    /\ exactOut.trade.inputAmount.quotient = quotesResults[1].result

\* The winning positions of each hook: the earliest one quoting the best amount.
WinnerIn == First(Quoting(MaxQuoted))
WinnerOut == First(Quoting(MinQuoted))

ReturnedStatesIn(s) ==
    \E a \in Amounts, c \in Currencies, rl \in BOOLEAN, rs \in RouteSeqs :
        \E qs \in [1..Len(rs) -> CallState] :
            UseBestV3TradeExactIn(a, c, rs, rl, qs).state = s

ReturnedStatesOut(s) ==
    \E a \in Amounts, c \in Currencies, rl \in BOOLEAN, rs \in RouteSeqs :
        \E qs \in [1..Len(rs) -> CallState] :
            UseBestV3TradeExactOut(c, a, rs, rl, qs).state = s

\* Every one of the five states is returned on some input.
EveryStateReturned ==
    \A s \in V3TradeState : ReturnedStatesIn(s) /\ ReturnedStatesOut(s)

\* C17: the hooks keep no memory between cycles and have no terminal state:
\* what each returns in a cycle is what its memo computes from that cycle's
\* amount, counter-asset, routes, routesLoading and batch, whatever cycles
\* came before, and whatever state was returned, each of the five states is
\* returned in the next cycle on some inputs.
C17_NoMemoryNoTerminalState ==
    /\ exactIn = UseBestV3TradeExactIn(amount, currency, routes, routesLoading, quotesResults)
    /\ exactOut = UseBestV3TradeExactOut(currency, amount, routes, routesLoading, quotesResults)
    /\ exactIn.state \in V3TradeState /\ exactOut.state \in V3TradeState
    /\ EveryStateReturned

\* C17 witness: the hooks are past a cycle that returned nothing to trade on
\* (the batch is settled and empty of results) with the inputs there, the
\* exact-input hook in NO_ROUTE_FOUND and the exact-output hook, on the same
\* inputs, in INVALID.
C17_Witness ==
    /\ InputsPresent /\ ~AnyLoading
    /\ Len(routes) = 2
    /\ Present = {}
    /\ exactIn.state = NO_ROUTE_FOUND
    /\ exactOut.state = INVALID

\* The minimum range of the selected pair on the selected chain.
CurrentMinRangeLength ==
    IF currencyAID = Undefined \/ currencyBID = Undefined \/ selectRangeChainId = Undefined
    THEN Undefined
    ELSE MinRangeLengthOf(
             GetEternalFarmFromTokens(currencyAID, currencyBID, selectRangeChainId))

\* C18: in SelectRange the minimum-range length belongs to the selected pair:
\* it is undefined or the value looked up for the current pair and chain,
\* and once every lookup has completed it is the value of the current pair
\* (undefined when the pair or the chain is missing).
C18_MinRangeLengthOfCurrentPair ==
    /\ minRangeLength \in {Undefined, CurrentMinRangeLength}
    /\ lookups = {} => minRangeLength = CurrentMinRangeLength

====
